---------------------------- MODULE Spec2Model ----------------------------
(***************************************************************************)
(* A model of pkg/cmd/repo/garden/garden.go: the seed derivation, the      *)
(* garden generator (plantGarden), the player's movement, the first full   *)
(* draw (drawGarden) and the input loop of gardenRun with its incremental  *)
(* redraw.                                                                 *)
(*                                                                         *)
(* Strings that the code only stores and prints are kept as TLA+ strings.  *)
(* Strings that the code inspects (the arguments of the status lines, the  *)
(* repository name handed to computeSeed) are sequences of characters or   *)
(* of code points, so that strings.Contains and the digit slicing are      *)
(* computed, not assumed.  A text written to the terminal is modelled by   *)
(* the glyph the terminal shows for it: a character, its colour and its    *)
(* bold attribute.                                                         *)
(***************************************************************************)
EXTENDS Integers, Sequences, FiniteSets, TLC

VARIABLES
    pc,          \* where gardenRun is: seed, start, row, cell, draw, loop, done, error, panic
    geo,         \* Geometry: Width, Height, Density (tenths), Repository (full name)
    commits,     \* the commits handed to plantGarden
    garden,      \* [][]*Cell, rows of cells
    y, x,        \* plantGarden's loop counters
    cellIx,      \* plantGarden: index of the next commit to plant
    streamIx,    \* plantGarden: column of the stream in the current row
    tint,        \* plantGarden: tint of the next stream cell
    player,      \* Player: X, Y, ShoeMoistureContent (Char is PlayerChar, Geo is geo)
    term,        \* what the terminal shows: <<row, column>> -> glyph, where written
    status,      \* the status lines on the terminal: row -> text, where written
    seed,        \* the value computeSeed returned, handed to rand.Seed
    err,         \* how gardenRun ended: "" (nil or still running), an error, a panic
    rand,        \* math/rand's source: what is known of the values it gives
    first        \* the grid of an earlier call of plantGarden, when there was one

vars == <<pc, geo, commits, garden, y, x, cellIx, streamIx, tint, player,
          term, status, seed, err, rand, first>>

---------------------------------------------------------------------------
(* Bounds of the model. *)
MaxWidth == 4
MaxHeight == 3
MaxCommits == 4

---------------------------------------------------------------------------
(* Directions, line 51-56. *)
DirUp == 0
DirDown == 1
DirLeft == 2
DirRight == 3

Directions == {DirUp, DirDown, DirLeft, DirRight}

(* ShoeMoistureContent after a step into the stream, lines 265 and 401. *)
Soaked == 5
(* The tint added per stream cell, line 340. *)
TintStep == 15
(* The digits computeSeed parses, line 467. *)
SeedDigits == 10

---------------------------------------------------------------------------
(* Glyphs.  RGB(r, g, b, x) is x in the colour r;g;b.  utils.Bold(s) is s  *)
(* shown bold; the terminal shows a text that is made bold twice as it     *)
(* shows one made bold once.                                               *)
RGB(r, g, b, c) == [fg |-> <<r, g, b>>, ch |-> c, bold |-> FALSE]

Plain(c) == [fg |-> <<>>, ch |-> c, bold |-> FALSE]

Bold(s) == [s EXCEPT !.bold = TRUE]

PlayerChar == Bold(Plain("@"))

---------------------------------------------------------------------------
(* Status lines.  A status line is a literal of the source (a format       *)
(* string) and the arguments formatted into it, each a sequence of         *)
(* characters.                                                             *)
GrassText == "You're standing on a patch of grass in a field of wildflowers."
TreeText == "You're standing under a tall, leafy tree."
StreamText == "You're standing in a shallow stream. It's refreshing."
BreezeText == "You're standing by a wildflower garden. There is a light breeze."
SignText == "You're standing in front of a weather-beaten sign that says %s."
FlowerText == "You're standing at a flower called %s planted by %s."

Sprintf(literal, arguments) == [text |-> literal, args |-> arguments]

StreamWord == <<"s", "t", "r", "e", "a", "m">>

(* bytes/strings Contains on sequences of characters. *)
Contains(s, sub) ==
    \E i \in 1..(Len(s) - Len(sub) + 1) : SubSeq(s, i, i + Len(sub) - 1) = sub

(* strings.Contains(cell.StatusLine, "stream"), lines 264 and 400.  Of the  *)
(* literals only StreamText holds the word; no literal ends or starts a    *)
(* part of it next to a %s (each %s stands between spaces or before a      *)
(* full stop), so the word is in the formatted line iff it is in the       *)
(* literal or in one of the arguments.                                     *)
ContainsStream(sl) ==
    \/ sl.text = StreamText
    \/ \E i \in 1..Len(sl.args) : Contains(sl.args[i], StreamWord)

---------------------------------------------------------------------------
(* Cells, lines 46-49. *)
Cell(char, sl) == [Char |-> char, StatusLine |-> sl]

grassCell == Cell(RGB(0, 200, 0, ","), Sprintf(GrassText, <<>>))

TreeCell == Cell(RGB(0, 150, 0, "^"), Sprintf(TreeText, <<>>))

StreamCell(t) == Cell(RGB(t, t, 255, "#"), Sprintf(StreamText, <<>>))

BreezeCell == Cell(RGB(0, 200, 0, ","), Sprintf(BreezeText, <<>>))

SignCell(g) == Cell(RGB(139, 69, 19, "+"), Sprintf(SignText, <<g.Repository>>))

FlowerCell(commit) ==
    Cell(commit.Char, Sprintf(FlowerText, <<SubSeq(commit.Sha, 1, 6), commit.Handle>>))

---------------------------------------------------------------------------
(* The inputs: repositories, commits, geometries. *)
RepoNames ==
    { <<"a", "/", "b">>,
      <<"a", "b", "/", "c">>,
      <<"c", "l", "i", "/", "c", "l", "i">> }

Hex(i) == <<"0", "1", "2", "3", "4", "5", "6", "7", "8", "9">>[(i % 10) + 1]

(* The i-th commit of the repository: a hash of 7 hex digits, the glyph    *)
(* getCommits made of it, and the author's handle; every third author's    *)
(* handle holds the word "stream".                                         *)
CommitAt(i) ==
    [Sha    |-> <<"c", "0", "f", "e", Hex(i \div 10), Hex(i), "d">>,
     Handle |-> IF i % 3 = 2 THEN <<"u">> \o StreamWord ELSE <<"u", Hex(i)>>,
     Char   |-> RGB(i, i, i, "*")]

CommitLists == { [i \in 1..n |-> CommitAt(i)] : n \in 0..MaxCommits }

(* Density and the draws of rand.Float64 in tenths: 0.3 is the density     *)
(* gardenRun sets (line 177).                                              *)
Densities == {3, 10}
Chances == {0, 3, 5, 9}

Geometries ==
    [Width : 1..MaxWidth, Height : 1..MaxHeight, Density : Densities,
     Repository : RepoNames]

NoPlayer == [X |-> 0, Y |-> 0, ShoeMoistureContent |-> 0]

---------------------------------------------------------------------------
(* Finite maps: what has been written on the terminal, by place. *)
EmptyMap == [k \in {} |-> 0]

Put(m, k, v) == (k :> v) @@ m

---------------------------------------------------------------------------
(* math/rand.  The source gives a sequence of values that its seed fixes.  *)
(* Of a source seeded once nothing is known ("free"): each draw is any     *)
(* value of its range.  To compare two calls under the same seed the       *)
(* values of the first are written to a tape ("record") and the source     *)
(* seeded again gives them back in their order ("replay"); past the end of *)
(* the tape its values are again unknown.                                  *)
FreeSource == [mode |-> "free", tape |-> <<>>]

RecordingSource == [mode |-> "record", tape |-> <<>>]

Reseeded(src) == [mode |-> "replay", tape |-> src.tape]

Replaying == rand.mode = "replay" /\ rand.tape # <<>>

(* rand.Intn(n) for n > 0, line 317. *)
Intn(n) ==
    IF Replaying /\ Head(rand.tape) \in 0..(n - 1) THEN {Head(rand.tape)} ELSE 0..(n - 1)

(* rand.Float64() in tenths, lines 342 and 372. *)
Float64 == IF Replaying THEN {Head(rand.tape)} ELSE Chances

(* The source after it gave the value d. *)
Gave(d) ==
    IF rand.mode = "record" THEN [rand EXCEPT !.tape = Append(@, d)]
    ELSE IF Replaying THEN [rand EXCEPT !.tape = Tail(@)]
    ELSE rand

(* No grid of an earlier call. *)
NoGrid == [called |-> FALSE, grid |-> <<>>]

---------------------------------------------------------------------------
(* computeSeed, lines 460-473. *)

(* The code point of each character the repository names use. *)
CodePoint(c) ==
    CASE c = "/" -> 47 [] c = "a" -> 97  [] c = "b" -> 98
      [] c = "c" -> 99 [] c = "i" -> 105 [] c = "l" -> 108

(* fmt.Sprintf("%d", n) for n >= 0: the decimal digits of n. *)
RECURSIVE Decimal(_)
Decimal(n) == IF n < 10 THEN <<n>> ELSE Append(Decimal(n \div 10), n % 10)

(* Lines 461-465: the digits of every code point of the name, in a row. *)
RECURSIVE Lol(_)
Lol(name) == IF name = <<>> THEN <<>> ELSE Decimal(CodePoint(Head(name))) \o Lol(Tail(name))

(* The number a sequence of decimal digits stands for. *)
RECURSIVE Value(_)
Value(ds) == IF ds = <<>> THEN 0 ELSE 10 * Value(SubSeq(ds, 1, Len(ds) - 1)) + ds[Len(ds)]

(* strconv.ParseInt(s, 10, 64) of ten digits never fails; the int64 it     *)
(* returns is hi * 100000 + lo.                                            *)
ParseInt(ds) == [hi |-> Value(SubSeq(ds, 1, 5)), lo |-> Value(SubSeq(ds, 6, 10))]

NoSeed == [hi |-> -1, lo |-> -1]

(* lol[0:10] panics when lol has fewer than 10 bytes (line 467). *)
SliceInRange(lol, n) == n <= Len(lol)

(* Line 161-162: the seed of the repository's full name. *)
ComputeSeed ==
    /\ pc = "seed"
    /\ LET lol == Lol(geo.Repository)
       IN  IF SliceInRange(lol, SeedDigits)
           THEN /\ seed' = ParseInt(SubSeq(lol, 1, SeedDigits))
                /\ pc' = "start"
                /\ UNCHANGED err
           ELSE /\ pc' = "panic"
                /\ err' = "panic: slice bounds out of range"
                /\ UNCHANGED seed
    /\ UNCHANGED <<geo, commits, garden, y, x, cellIx, streamIx, tint, player, term, status,
                   rand, first>>

---------------------------------------------------------------------------
(* plantGarden, lines 313-387.  y, x, cellIx and streamIx count from 0 as  *)
(* in the source; garden[y + 1][x + 1] is the source's garden[y][x].       *)

(* A first stream column that is not moved off the sign's column. *)
FirstStreamIxUnshifted(g, r) == r

(* Line 318-320: the first stream column, from the draw r of rand.Intn. *)
FirstStreamIx(g, r) == IF r = g.Width \div 2 THEN r - 1 ELSE r

(* A generator that stops when every commit is planted. *)
SupplyExhaustedAtLength(ix, cs) == ix = Len(cs)

(* Line 323 and 367: the test that stops the rows and the flowers. *)
SupplyExhausted(ix, cs) == ix = Len(cs) - 1

(* A generator that leaves the last row to the other rules. *)
IsTreeSidesOnly(g, yy, xx) == yy > 0 /\ (xx = 0 \/ xx = g.Width - 1)

(* A generator that leaves the left column to the other rules. *)
IsTreeRightOnly(g, yy, xx) == (yy > 0 /\ xx = g.Width - 1) \/ yy = g.Height - 1

(* Line 328: the cells that are trees. *)
IsTree(g, yy, xx) ==
    (yy > 0 /\ (xx = 0 \/ xx = g.Width - 1)) \/ yy = g.Height - 1

(* A stream that drifts to the right. *)
StreamWalkRight(g, ix, coin) ==
    LET a == ix + 1
        b == IF coin THEN a - 1 ELSE a
        c == IF b < 0 THEN 0 ELSE b
    IN  IF c > g.Width THEN g.Width ELSE c

(* Lines 341-350: the stream column after a stream cell; coin is           *)
(* rand.Float64() < 0.5.                                                   *)
StreamWalk(g, ix, coin) ==
    LET a == ix - 1
        b == IF coin THEN a + 1 ELSE a
        c == IF b < 0 THEN 0 ELSE b
    IN  IF c > g.Width THEN g.Width ELSE c

(* Line 342: rand.Float64() < 0.5. *)
Heads(f) == f < 5

(* A generator that plants a flower on the lower half of the draws only. *)
BloomsOnLowDraws(chance, g) == 2 * chance <= g.Density

(* Line 373: a flower is planted when the draw is at most the density. *)
Blooms(chance, g) == chance <= g.Density

(* A generator that plants the same commit again. *)
NextCommitStuck(ix) == ix

(* Line 379: the commit after the one just planted. *)
NextCommit(ix) == ix + 1

(* garden[y] = append(garden[y], c) *)
AppendCell(gdn, yy, c) == [gdn EXCEPT ![yy + 1] = Append(@, c)]

(* An x loop that stops one column early. *)
NextColumnShort ==
    IF x + 1 < geo.Width - 1
    THEN /\ x' = x + 1
         /\ UNCHANGED <<pc, y>>
    ELSE /\ x' = 0
         /\ y' = y + 1
         /\ pc' = "row"

(* The x loop's post statement and test (line 327), and the y loop's post  *)
(* statement (line 322) when the row is complete.                          *)
NextColumn ==
    IF x + 1 < geo.Width
    THEN /\ x' = x + 1
         /\ UNCHANGED <<pc, y>>
    ELSE /\ x' = 0
         /\ y' = y + 1
         /\ pc' = "row"

(* A call that goes on with the grid it finds. *)
GardenLeftOver == garden

(* Line 316: garden := [][]*Cell{}. *)
NewGarden == <<>>

(* Lines 314-321.  rand.Intn(n) panics when n <= 0. *)
PlantStart ==
    /\ pc = "start"
    /\ garden' = NewGarden
    /\ IF geo.Width - 1 <= 0
       THEN /\ pc' = "panic"
            /\ err' = "panic: invalid argument to Intn"
            /\ UNCHANGED <<streamIx, rand>>
       ELSE /\ \E r \in Intn(geo.Width - 1) :
                   /\ streamIx' = FirstStreamIx(geo, r)
                   /\ rand' = Gave(r)
            /\ pc' = "row"
            /\ UNCHANGED err
    /\ UNCHANGED <<geo, commits, y, x, cellIx, tint, player, term, status, seed, first>>

(* Lines 322-326 and 386: the head of the y loop; the locals end with the  *)
(* call.                                                                   *)
PlantRow ==
    /\ pc = "row"
    /\ IF y < geo.Height /\ ~SupplyExhausted(cellIx, commits)
       THEN /\ garden' = Append(garden, <<>>)
            /\ x' = 0
            /\ pc' = "cell"
            /\ UNCHANGED <<y, cellIx, streamIx, tint>>
       ELSE /\ pc' = "draw"
            /\ y' = 0 /\ x' = 0 /\ cellIx' = 0 /\ streamIx' = 0 /\ tint' = 0
            /\ UNCHANGED garden
    /\ UNCHANGED <<geo, commits, player, term, status, seed, err, rand, first>>

(* garden[y] = append(garden[y], c), then on to the next column. *)
Plant(c) ==
    /\ garden' = AppendCell(garden, y, c)
    /\ NextColumn
    /\ UNCHANGED err

(* Lines 327-383: one pass of the x loop's body. *)
PlantCell ==
    /\ pc = "cell"
    /\ IF IsTree(geo, y, x)
       THEN /\ Plant(TreeCell)
            /\ UNCHANGED <<cellIx, streamIx, tint, rand>>
       ELSE IF x = streamIx
       THEN /\ Plant(StreamCell(tint))
            /\ tint' = tint + TintStep
            /\ \E f \in Float64 :
                   /\ streamIx' = StreamWalk(geo, streamIx, Heads(f))
                   /\ rand' = Gave(f)
            /\ UNCHANGED cellIx
       ELSE IF y = 0 /\ (x < geo.Width \div 2 \/ x > geo.Width \div 2)
       THEN /\ Plant(BreezeCell)
            /\ UNCHANGED <<cellIx, streamIx, tint, rand>>
       ELSE IF y = 0 /\ x = geo.Width \div 2
       THEN /\ Plant(SignCell(geo))
            /\ UNCHANGED <<cellIx, streamIx, tint, rand>>
       ELSE IF SupplyExhausted(cellIx, commits)
       THEN /\ Plant(grassCell)
            /\ UNCHANGED <<cellIx, streamIx, tint, rand>>
       ELSE \E chance \in Float64 :
            /\ rand' = Gave(chance)
            /\ IF Blooms(chance, geo)
               THEN IF cellIx >= Len(commits)
                    THEN \* commits[cellIx] on an empty list
                         /\ pc' = "panic"
                         /\ err' = "panic: index out of range (commits)"
                         /\ UNCHANGED <<garden, y, x, cellIx, streamIx, tint>>
                    ELSE /\ Plant(FlowerCell(commits[cellIx + 1]))
                         /\ cellIx' = NextCommit(cellIx)
                         /\ UNCHANGED <<streamIx, tint>>
               ELSE /\ Plant(grassCell)
                    /\ UNCHANGED <<cellIx, streamIx, tint>>
    /\ UNCHANGED <<geo, commits, player, term, status, seed, first>>

---------------------------------------------------------------------------
(* A move whose way down is not stopped at the last row. *)
moveDownUnchecked(p, g, direction) ==
    IF direction = DirUp
    THEN IF p.Y = 0
         THEN [p |-> p, moved |-> FALSE]
         ELSE [p |-> [p EXCEPT !.Y = @ - 1], moved |-> TRUE]
    ELSE IF direction = DirDown
    THEN [p |-> [p EXCEPT !.Y = @ + 1], moved |-> TRUE]
    ELSE IF direction = DirLeft
    THEN IF p.X = 0
         THEN [p |-> p, moved |-> FALSE]
         ELSE [p |-> [p EXCEPT !.X = @ - 1], moved |-> TRUE]
    ELSE IF direction = DirRight
    THEN IF p.X = g.Width - 1
         THEN [p |-> p, moved |-> FALSE]
         ELSE [p |-> [p EXCEPT !.X = @ + 1], moved |-> TRUE]
    ELSE [p |-> p, moved |-> TRUE]

(* A move that reports a step to the left that the edge stopped. *)
moveLeftAlwaysTrue(p, g, direction) ==
    IF direction = DirUp
    THEN IF p.Y = 0
         THEN [p |-> p, moved |-> FALSE]
         ELSE [p |-> [p EXCEPT !.Y = @ - 1], moved |-> TRUE]
    ELSE IF direction = DirDown
    THEN IF p.Y = g.Height - 1
         THEN [p |-> p, moved |-> FALSE]
         ELSE [p |-> [p EXCEPT !.Y = @ + 1], moved |-> TRUE]
    ELSE IF direction = DirLeft
    THEN IF p.X = 0
         THEN [p |-> p, moved |-> TRUE]
         ELSE [p |-> [p EXCEPT !.X = @ - 1], moved |-> TRUE]
    ELSE IF direction = DirRight
    THEN IF p.X = g.Width - 1
         THEN [p |-> p, moved |-> FALSE]
         ELSE [p |-> [p EXCEPT !.X = @ + 1], moved |-> TRUE]
    ELSE [p |-> p, moved |-> TRUE]

(* Player.move, lines 60-85: the player after the call and the value       *)
(* returned.                                                               *)
move(p, g, direction) ==
    IF direction = DirUp
    THEN IF p.Y = 0
         THEN [p |-> p, moved |-> FALSE]
         ELSE [p |-> [p EXCEPT !.Y = @ - 1], moved |-> TRUE]
    ELSE IF direction = DirDown
    THEN IF p.Y = g.Height - 1
         THEN [p |-> p, moved |-> FALSE]
         ELSE [p |-> [p EXCEPT !.Y = @ + 1], moved |-> TRUE]
    ELSE IF direction = DirLeft
    THEN IF p.X = 0
         THEN [p |-> p, moved |-> FALSE]
         ELSE [p |-> [p EXCEPT !.X = @ - 1], moved |-> TRUE]
    ELSE IF direction = DirRight
    THEN IF p.X = g.Width - 1
         THEN [p |-> p, moved |-> FALSE]
         ELSE [p |-> [p EXCEPT !.X = @ + 1], moved |-> TRUE]
    ELSE [p |-> p, moved |-> TRUE]

---------------------------------------------------------------------------
(* The input bytes and their classes, lines 293-311. *)
Keys == {"a", "q", "h", "d", "l", "w", "z", "k", "s", "j", "Q", "W", "x"}

(* The upper-case letters among the bytes, with their lower case. *)
UpperCase ==
    [A |-> "a", Q |-> "q", H |-> "h", D |-> "d", L |-> "l", W |-> "w", Z |-> "z",
     K |-> "k", S |-> "s", J |-> "j", X |-> "x"]

Lower(c) == IF c \in DOMAIN UpperCase THEN UpperCase[c] ELSE c

EqualFold(a, b) == Lower(a) = Lower(b)

(* A test for Left that leaves q to the quit case. *)
isLeftWithoutQ(b) == EqualFold(b, "a") \/ EqualFold(b, "h")

isLeft(b) == EqualFold(b, "a") \/ EqualFold(b, "q") \/ EqualFold(b, "h")

isRight(b) == EqualFold(b, "d") \/ EqualFold(b, "l")

isDown(b) == EqualFold(b, "s") \/ EqualFold(b, "j")

isUp(b) == EqualFold(b, "w") \/ EqualFold(b, "z") \/ EqualFold(b, "k")

isQuit(b) == EqualFold(b, "q")

(* The switch of lines 211-228: the player after it and the three flags. *)
Dispatch(p, g, b) ==
    IF isLeft(b)
    THEN LET r == move(p, g, DirLeft)
         IN  [p |-> r.p, moved |-> r.moved, quitting |-> FALSE, continuing |-> FALSE]
    ELSE IF isRight(b)
    THEN LET r == move(p, g, DirRight)
         IN  [p |-> r.p, moved |-> r.moved, quitting |-> FALSE, continuing |-> FALSE]
    ELSE IF isUp(b)
    THEN LET r == move(p, g, DirUp)
         IN  [p |-> r.p, moved |-> r.moved, quitting |-> FALSE, continuing |-> FALSE]
    ELSE IF isDown(b)
    THEN LET r == move(p, g, DirDown)
         IN  [p |-> r.p, moved |-> r.moved, quitting |-> FALSE, continuing |-> FALSE]
    ELSE IF isQuit(b)
    THEN [p |-> p, moved |-> FALSE, quitting |-> TRUE, continuing |-> FALSE]
    ELSE [p |-> p, moved |-> FALSE, quitting |-> FALSE, continuing |-> TRUE]

---------------------------------------------------------------------------
(* The texts under the grid. *)
SquishText == "\nYour shoes squish with water from the stream."
DriedText == "\nYour shoes seem to have dried out."
BlankText == "\n                                             "
Padding == "         "

StatusText(description, padding, suffix) ==
    [desc |-> description, pad |-> padding, more |-> suffix, bold |-> FALSE]

NoLine == Sprintf("", <<>>)

(* Lines 264-270 and 400-411: the moisture after a step onto cell c. *)
Wetten(c, m) ==
    IF ContainsStream(c.StatusLine)
    THEN Soaked
    ELSE IF m > 0 THEN m - 1 ELSE m

(* statusLine, lines 426-437. *)
statusLine(gdn, p) ==
    StatusText(gdn[p.Y + 1][p.X + 1].StatusLine, Padding,
               IF p.ShoeMoistureContent > 1 THEN SquishText
               ELSE IF p.ShoeMoistureContent = 1 THEN DriedText
               ELSE BlankText)

(* The cursor after "\033[;H" and the loop                                 *)
(* for i := 0; i < n && i < limit; i++ { one step }.                       *)
Steps(n, limit) ==
    IF n <= 0 \/ limit <= 0 THEN 0 ELSE IF n < limit THEN n ELSE limit

---------------------------------------------------------------------------
(* drawGarden, lines 389-424, on the cleared screen. *)
Places(gdn) ==
    UNION { { <<r, c>> : c \in 0..(Len(gdn[r + 1]) - 1) } : r \in 0..(Len(gdn) - 1) }

UnderPlayer(p, r, c) == p.X = c /\ p.Y = r

(* Lines 392-420: the glyph printed for each cell. *)
DrawnGrid(gdn, p) ==
    [q \in Places(gdn) |->
        IF UnderPlayer(p, q[1], q[2])
        THEN Bold(PlayerChar)
        ELSE gdn[q[1] + 1][q[2] + 1].Char]

(* Lines 396-412: the status text of the cell under the player. *)
DrawnStatus(gdn, p) ==
    IF <<p.Y, p.X>> \notin Places(gdn)
    THEN StatusText(NoLine, "", "")
    ELSE LET c == gdn[p.Y + 1][p.X + 1]
         IN  StatusText(c.StatusLine, "",
                 IF ContainsStream(c.StatusLine) THEN ""
                 ELSE IF p.ShoeMoistureContent > 1 THEN SquishText
                 ELSE IF p.ShoeMoistureContent = 1 THEN DriedText
                 ELSE "")

(* Lines 400-411: the moisture after the draw. *)
DrawnMoisture(gdn, p) ==
    IF <<p.Y, p.X>> \notin Places(gdn)
    THEN p.ShoeMoistureContent
    ELSE Wetten(gdn[p.Y + 1][p.X + 1], p.ShoeMoistureContent)

(* Lines 188-190: the garden is planted, the screen cleared, the garden    *)
(* drawn; the status text goes below the rows and one empty line.          *)
DrawGarden ==
    /\ pc = "draw"
    /\ term' = DrawnGrid(garden, player)
    /\ status' = Put(EmptyMap, Len(garden) + 1, Bold(DrawnStatus(garden, player)))
    /\ player' = [player EXCEPT !.ShoeMoistureContent = DrawnMoisture(garden, player)]
    /\ pc' = "loop"
    /\ UNCHANGED <<geo, commits, garden, y, x, cellIx, streamIx, tint, seed, err, rand, first>>

---------------------------------------------------------------------------
(* The loop of gardenRun, lines 202-283. *)

InGrid(gdn, r, c) == r >= 0 /\ r < Len(gdn) /\ c >= 0 /\ c < Len(gdn[r + 1])

(* Lines 243-260: the two cells repainted. *)
Repaint(t, gdn, g, oldX, oldY, p) ==
    LET previousCell == gdn[oldY + 1][oldX + 1]
        t1 == Put(t, <<Steps(oldY, g.Height), Steps(oldX, g.Width)>>, previousCell.Char)
    IN  Put(t1, <<Steps(p.Y, g.Height), Steps(p.X, g.Width)>>, PlayerChar)

(* Lines 275-280: the row of the status text. *)
StatusRow(g) == Steps(g.Height - 1, g.Height - 1) + 2

(* One pass of the loop on the byte b.  d is what the switch leaves, wet    *)
(* the player after lines 262-270.                                        *)
LoopIter(b) ==
    /\ pc = "loop"
    /\ \E d \in {Dispatch(player, geo, b)} :
       LET oldX == player.X
           oldY == player.Y
       IN  IF ~d.moved \/ d.continuing
           THEN UNCHANGED <<pc, player, term, status, err>>
           ELSE IF d.quitting
           THEN \* lines 285-288: the farewell, return nil
                /\ pc' = "done"
                /\ UNCHANGED <<player, term, status, err>>
           ELSE IF ~InGrid(garden, d.p.Y, d.p.X) \/ ~InGrid(garden, oldY, oldX)
           THEN \* garden[player.Y][player.X]: index out of range
                /\ pc' = "panic"
                /\ err' = "panic: index out of range (garden)"
                /\ player' = d.p
                /\ UNCHANGED <<term, status>>
           ELSE \E wet \in {[d.p EXCEPT !.ShoeMoistureContent =
                                Wetten(garden[d.p.Y + 1][d.p.X + 1], @)]} :
                    /\ player' = wet
                    /\ term' = Repaint(term, garden, geo, oldX, oldY, d.p)
                    /\ status' = Put(status, StatusRow(geo), Bold(statusLine(garden, wet)))
                    /\ UNCHANGED <<pc, err>>
    /\ UNCHANGED <<geo, commits, garden, y, x, cellIx, streamIx, tint, seed, rand, first>>

(* Lines 203-206: the read fails (the input ends) and gardenRun returns. *)
ReadError ==
    /\ pc = "loop"
    /\ pc' = "error"
    /\ err' = "EOF"
    /\ UNCHANGED <<geo, commits, garden, y, x, cellIx, streamIx, tint, player, term,
                   status, seed, rand, first>>

---------------------------------------------------------------------------
(* gardenRun up to line 161, with the source src behind math/rand. *)
InitWith(src) ==
    /\ pc = "seed"
    /\ geo \in Geometries
    /\ commits \in CommitLists
    /\ garden = <<>>
    /\ y = 0 /\ x = 0 /\ cellIx = 0 /\ streamIx = 0 /\ tint = 0
    /\ player = NoPlayer
    /\ term = EmptyMap
    /\ status = EmptyMap
    /\ seed = NoSeed
    /\ err = ""
    /\ rand = src
    /\ first = NoGrid

Init == InitWith(FreeSource)

Step == \E b \in Keys : LoopIter(b)

Next ==
    \/ ComputeSeed
    \/ PlantStart
    \/ PlantRow
    \/ PlantCell
    \/ DrawGarden
    \/ Step
    \/ ReadError

Spec == Init /\ [][Next]_vars

---------------------------------------------------------------------------
(* plantGarden called twice on the same commits and geometry, the source   *)
(* seeded with the same seed before each call (lines 162 and 188).  The    *)
(* grid of the first call is kept aside; the second call starts with the   *)
(* variable garden as the first left it and makes its own (line 316).      *)
PlantAgain ==
    /\ pc = "draw"
    /\ ~first.called
    /\ first' = [called |-> TRUE, grid |-> garden]
    /\ rand' = Reseeded(rand)
    /\ pc' = "start"
    /\ UNCHANGED <<geo, commits, garden, y, x, cellIx, streamIx, tint, player, term, status,
                   seed, err>>

InitTwice == InitWith(RecordingSource)

NextTwice ==
    \/ ComputeSeed
    \/ PlantStart
    \/ PlantRow
    \/ PlantCell
    \/ PlantAgain

SpecTwice == InitTwice /\ [][NextTwice]_vars

---------------------------------------------------------------------------
(* What the properties below speak of. *)

(* plantGarden is at work on the grid, or has just returned it; nothing    *)
(* writes the grid after that.                                             *)
Planting == pc \in {"row", "cell", "draw"}

(* plantGarden has just returned its grid. *)
Planted == pc = "draw"

(* The first draw is done. *)
Drawn ==
    \/ pc \in {"loop", "done", "error"}
    \/ pc = "panic" /\ err = "panic: index out of range (garden)"

CellAt(r, c) == garden[r + 1][c + 1]

IsFlower(c) == c.StatusLine.text = FlowerText

IsStreamCell(c) == c.StatusLine = Sprintf(StreamText, <<>>) /\ c.Char.ch = "#"

RECURSIVE Flat(_)
Flat(rows) == IF rows = <<>> THEN <<>> ELSE Head(rows) \o Flat(Tail(rows))

(* The flower cells of the grid in row-major order. *)
Flowers == SelectSeq(Flat(garden), IsFlower)

FullGrid == Len(garden) = geo.Height /\ \A r \in 1..Len(garden) : Len(garden[r]) = geo.Width

---------------------------------------------------------------------------
(* C1: after any sequence of moves the player's X is in [0, width-1] and   *)
(* the player's Y is in [0, height-1].                                     *)
C1_PlayerInBounds ==
    /\ player.X \in 0..(geo.Width - 1)
    /\ player.Y \in 0..(geo.Height - 1)

(* The player has walked to the far corner of a grid of several rows and   *)
(* columns.                                                                *)
C1_Witness ==
    /\ pc = "loop"
    /\ geo.Width > 1 /\ geo.Height > 1
    /\ player.X = geo.Width - 1
    /\ player.Y = geo.Height - 1

(* C2: wherever the player stands and for each of the four directions,     *)
(* move returns true iff the position changed; it returns false and        *)
(* changes nothing exactly at Up/Y=0, Down/Y=height-1, Left/X=0 and        *)
(* Right/X=width-1, and otherwise changes one coordinate by one.           *)
C2_MoveResult ==
    pc = "loop" => \A dir \in Directions :
        \A r \in {move(player, geo, dir)} :
            LET blocked == \/ dir = DirUp /\ player.Y = 0
                           \/ dir = DirDown /\ player.Y = geo.Height - 1
                           \/ dir = DirLeft /\ player.X = 0
                           \/ dir = DirRight /\ player.X = geo.Width - 1
                dx == r.p.X - player.X
                dy == r.p.Y - player.Y
            IN  /\ r.moved <=> (dx # 0 \/ dy # 0)
                /\ r.moved <=> ~blocked
                /\ blocked => r.p = player
                /\ r.p.ShoeMoistureContent = player.ShoeMoistureContent
                /\ ~blocked =>
                       /\ dir = DirUp => (dx = 0 /\ dy = -1)
                       /\ dir = DirDown => (dx = 0 /\ dy = 1)
                       /\ dir = DirLeft => (dx = -1 /\ dy = 0)
                       /\ dir = DirRight => (dx = 1 /\ dy = 0)

(* The player came from (1,1) up to (1,0), where a second Up is stopped    *)
(* and a step down is not.                                                 *)
C2_Witness ==
    /\ pc = "loop"
    /\ player.X = 1 /\ player.Y = 0
    /\ <<1, 1>> \in DOMAIN term /\ term[<<1, 1>>] # PlayerChar
    /\ ~move(player, geo, DirUp).moved
    /\ move(player, geo, DirDown).p.Y = 1

(* C3: a pass of the loop on a byte that isQuit accepts (q, Q) ends the    *)
(* loop on that pass: gardenRun prints the farewell and returns.           *)
C3_QuitByteEndsLoop ==
    [][\A b \in Keys : (isQuit(b) /\ LoopIter(b)) => pc' = "done"]_vars

(* C4: the moisture is in [0,5]; an accepted move onto a stream cell sets  *)
(* it to 5; an accepted move onto any other cell takes one off it when it  *)
(* is above 0 and leaves it at 0 otherwise.                                *)
C4_MoistureSteps ==
    /\ [](player.ShoeMoistureContent \in 0..Soaked)
    /\ [][(pc = "loop" /\ pc' = "loop" /\ <<player.X, player.Y>>' # <<player.X, player.Y>>) =>
            LET target == garden[player.Y' + 1][player.X' + 1]
                m == player.ShoeMoistureContent
            IN  player.ShoeMoistureContent' =
                    IF IsStreamCell(target) THEN Soaked
                    ELSE IF m > 0 THEN m - 1 ELSE 0]_vars

(* C5: once the grid is drawn, the terminal shows the player's glyph at    *)
(* the player's position and, at every other place of the grid, the glyph  *)
(* of the cell there.                                                      *)
C5_TerminalShowsPlayer ==
    Drawn =>
        /\ <<player.Y, player.X>> \in DOMAIN term
        /\ \A q \in DOMAIN term :
               IF q = <<player.Y, player.X>>
               THEN term[q] = PlayerChar
               ELSE q \in Places(garden) /\ term[q] = CellAt(q[1], q[2]).Char
        /\ Places(garden) \subseteq DOMAIN term

(* C6: the flower cells of the grid, read in row-major order, are the      *)
(* flowers of commits[0], commits[1], ... : none repeated, none skipped,   *)
(* pairwise distinct, and no more of them than commits.                    *)
C6_FlowersInOrder ==
    Planting =>
        \A fs \in {Flowers} :
            /\ Len(fs) <= Len(commits)
            /\ \A i \in 1..Len(fs) : fs[i] = FlowerCell(commits[i])
            /\ \A i, j \in 1..Len(fs) : i # j => fs[i] # fs[j]

(* A grid with two flowers has been planted. *)
C6_Witness == Planted /\ Len(Flowers) >= 2

(* C7 as claimed: the cells of row 0 at column 0 and width-1, of the rows  *)
(* below at column 0 and width-1, and of row height-1 are tree cells.      *)
C7_TreeBorderClaimed ==
    Planting =>
        \A q \in Places(garden) :
            (q[2] = 0 \/ q[2] = geo.Width - 1 \/ q[1] = geo.Height - 1)
                => CellAt(q[1], q[2]) = TreeCell

(* C7 amended: the cells of the rows below row 0 at column 0 and width-1   *)
(* and the cells of row height-1 are tree cells; the cells of row 0 at     *)
(* column 0 and width-1 are tree cells only when height is 1.              *)
C7_TreeBorder ==
    Planting =>
        \A q \in Places(garden) :
            /\ ((q[1] > 0 /\ (q[2] = 0 \/ q[2] = geo.Width - 1)) \/ q[1] = geo.Height - 1)
                   => CellAt(q[1], q[2]) = TreeCell
            /\ (q[1] = 0 /\ (q[2] = 0 \/ q[2] = geo.Width - 1) /\ geo.Height > 1)
                   => CellAt(q[1], q[2]) # TreeCell

(* A grid of three rows and three columns or more is planted in full. *)
C7_Witness ==
    /\ Planted /\ FullGrid
    /\ geo.Height >= 3 /\ geo.Width >= 3
    /\ CellAt(geo.Height - 1, 1) = TreeCell
    /\ CellAt(1, 0) = TreeCell

(* C8: no flower cell lies in row 0, in row height-1, in column 0 or in    *)
(* column width-1.                                                         *)
C8_NoFlowerOnBorder ==
    Planting =>
        \A q \in Places(garden) :
            IsFlower(CellAt(q[1], q[2])) =>
                /\ q[1] # 0 /\ q[1] # geo.Height - 1
                /\ q[2] # 0 /\ q[2] # geo.Width - 1

(* A grid that holds a flower is planted in full. *)
C8_Witness == Planted /\ FullGrid /\ Len(Flowers) >= 1

(* C9: every row of a grid plantGarden returned has width columns. *)
C9_RowsHaveWidth ==
    Planted => \A r \in 1..Len(garden) : Len(garden[r]) = geo.Width

(* The generator stopped early: the grid has rows, fewer than height. *)
C9_Witness ==
    /\ Planted
    /\ Len(garden) > 0 /\ Len(garden) < geo.Height
    /\ Len(garden[Len(garden)]) = geo.Width

(* C10: for a name with fewer than ten digits computeSeed does not panic:  *)
(* gardenRun goes on with a seed or returns an error.                      *)
C10_ShortNameGuarded ==
    (pc # "seed" /\ Len(Lol(geo.Repository)) < SeedDigits) =>
        /\ pc # "panic"
        /\ seed # NoSeed \/ pc = "error"

Interior(q) == q[1] \in 1..(geo.Height - 2) /\ q[2] \in 1..(geo.Width - 2)

InteriorCells ==
    IF geo.Width > 2 /\ geo.Height > 2 THEN (geo.Width - 2) * (geo.Height - 2) ELSE 0

(* C12: with density 1.0 and more commits than interior cells plus one,    *)
(* whatever the source gives, every interior cell that is not a stream     *)
(* cell is a flower, no two of them the same commit's, none of them grass, *)
(* and the grid returned has all its rows.                                 *)
C12_DenseInterior ==
    (Planting /\ geo.Density = 10 /\ Len(commits) > InteriorCells + 1) =>
        /\ \A q \in Places(garden) :
               Interior(q) =>
                   /\ IsStreamCell(CellAt(q[1], q[2])) \/ IsFlower(CellAt(q[1], q[2]))
                   /\ CellAt(q[1], q[2]) # grassCell
                   /\ \A o \in Places(garden) :
                          (Interior(o) /\ o # q /\ IsFlower(CellAt(q[1], q[2])))
                              => CellAt(o[1], o[2]) # CellAt(q[1], q[2])
        /\ Planted => FullGrid

(* A grid of 4 by 3 is planted from 4 commits at density 1.0: its interior *)
(* holds a flower.                                                         *)
C12_Witness ==
    /\ Planted /\ FullGrid
    /\ geo.Density = 10 /\ geo.Width = 4 /\ geo.Height = 3
    /\ Len(commits) = 4
    /\ \E q \in Places(garden) : Interior(q) /\ IsFlower(CellAt(q[1], q[2]))

(* What the switch leaves when it takes the case of the direction dir. *)
Moves(p, g, dir) ==
    [p |-> move(p, g, dir).p, moved |-> move(p, g, dir).moved,
     quitting |-> FALSE, continuing |-> FALSE]

Refused(b) ==
    \/ Lower(b) \notin {"a", "q", "h", "d", "l", "w", "z", "k", "s", "j"}
    \/ Lower(b) \in {"a", "q", "h"} /\ player.X = 0
    \/ Lower(b) \in {"d", "l"} /\ player.X = geo.Width - 1
    \/ Lower(b) \in {"w", "z", "k"} /\ player.Y = 0
    \/ Lower(b) \in {"s", "j"} /\ player.Y = geo.Height - 1

(* C14: a pass of the loop on an unbound byte, or on a direction the edge  *)
(* stops, leaves the player's X, Y and moisture and the terminal as they   *)
(* were and the loop running; a pass on any other byte that renders        *)
(* applies the moisture step once, for the cell stepped onto.              *)
C14_RefusedKeyChangesNothing ==
    [][\A b \in Keys :
          LoopIter(b) =>
              IF Refused(b)
              THEN UNCHANGED <<player, term, status, pc>>
              ELSE /\ <<player.X, player.Y>>' # <<player.X, player.Y>>
                   /\ pc' = "loop" =>
                          player.ShoeMoistureContent' =
                              Wetten(garden[player.Y' + 1][player.X' + 1],
                                     player.ShoeMoistureContent)]_vars

(* The player stands at the left edge with wet shoes after a step the loop *)
(* rendered: a step to the left is stopped there and a rendering would dry *)
(* the shoes.                                                              *)
C14_Witness ==
    /\ pc = "loop"
    /\ player.X = 0
    /\ player.ShoeMoistureContent \in 1..(Soaked - 1)
    /\ StatusRow(geo) \in DOMAIN status
    /\ status[StatusRow(geo)].pad = Padding
    /\ Refused("a") /\ Refused("x") /\ ~Refused("d")

(* C15: the loop never reads a cell the grid does not have: after every    *)
(* accepted move garden[Y][X] and garden[oldY][oldX] exist, also in a grid *)
(* of fewer than height rows.                                              *)
C15_PositionIndexesCell ==
    /\ err # "panic: index out of range (garden)"
    /\ (pc = "loop" /\ StatusRow(geo) \in DOMAIN status /\ Len(garden) > 0)
           => InGrid(garden, player.Y, player.X)

(* C16: for every commit list, the empty one and the list of one commit    *)
(* included, plantGarden reads no commit at an index at or beyond the      *)
(* length of the list, and plants no more flowers than the supply holds.   *)
C16_NoReadBeyondSupply ==
    /\ err # "panic: index out of range (commits)"
    /\ Planting => Len(Flowers) <= Len(commits)

(* The number of flowers the generator plants at most. *)
FlowerLimit == IF Len(commits) > 0 THEN Len(commits) - 1 ELSE 0

(* C17 as claimed, in its bound on the flowers: the grid returned holds at *)
(* most (total commits - 1) flower cells.                                  *)
C17_FlowersBelowSupplyClaimed ==
    Planted => Len(Flowers) <= Len(commits) - 1

(* C17 amended: once the flowers planted number (total commits - 1) the    *)
(* generator plants no further flower, completes the row in progress cell  *)
(* by cell and returns at the head of the next row, appending none; the    *)
(* rows of the grid returned all have width cells, and the flowers number  *)
(* at most (total commits - 1), or 0 for the empty list.                   *)
C17_StopsAtLastCommit ==
    /\ [](Planting => Len(Flowers) <= FlowerLimit)
    /\ [](Planted => \A r \in 1..Len(garden) : Len(garden[r]) = geo.Width)
    /\ [][(pc \in {"row", "cell"} /\ Len(Flowers) = Len(commits) - 1) =>
             /\ Len(Flowers') = Len(Flowers)
             /\ pc = "row" => (pc' = "draw" /\ garden' = garden)
             /\ pc = "cell" =>
                    /\ Len(garden') = Len(garden)
                    /\ Len(garden'[Len(garden)]) = Len(garden[Len(garden)]) + 1
                    /\ pc' \in {"row", "cell"}]_vars

(* The generator returned early: the grid holds (total commits - 1)        *)
(* flowers, one at least, and fewer than height rows.                      *)
C17_Witness ==
    /\ Planted
    /\ Len(commits) >= 2
    /\ Len(Flowers) = Len(commits) - 1
    /\ Len(garden) > 0 /\ Len(garden) < geo.Height

(* The columns of row r that hold a stream cell. *)
StreamColumns(r) ==
    { c \in 0..(Len(garden[r + 1]) - 1) : IsStreamCell(CellAt(r, c)) }

IsSign(c) == c.StatusLine.text = SignText

(* C19: for width >= 2 and height >= 2, in every grid whose row 0 is       *)
(* complete the cell at (row 0, column width/2) is the sign, no other cell *)
(* is a sign, and no stream cell is at that place.                         *)
C19_SignAlone ==
    (Planting /\ geo.Width >= 2 /\ geo.Height >= 2) =>
        /\ \A q \in Places(garden) :
               /\ IsSign(CellAt(q[1], q[2])) => q = <<0, geo.Width \div 2>>
               /\ IsStreamCell(CellAt(q[1], q[2])) => q # <<0, geo.Width \div 2>>
        /\ (Len(garden) >= 1 /\ Len(garden[1]) = geo.Width) =>
               CellAt(0, geo.Width \div 2) = SignCell(geo)

(* A grid of 4 columns: the stream starts in column 1, next to the sign in *)
(* column 2.                                                               *)
C19_Witness ==
    /\ Planted /\ Len(garden) >= 2
    /\ geo.Width = 4
    /\ IsStreamCell(CellAt(0, 1))
    /\ IsSign(CellAt(0, 2))

(* The status text the terminal shows: the loop's once it has rendered,    *)
(* the first draw's before.                                                *)
ShownStatus ==
    IF StatusRow(geo) \in DOMAIN status
    THEN status[StatusRow(geo)]
    ELSE status[Len(garden) + 1]

(* C20: after every render, the first draw and each of the loop's, the     *)
(* status text is the description of the cell under the player, followed   *)
(* by the squish line exactly when the moisture is above 1, by the dried   *)
(* out line exactly when it is 1, and by neither when it is 0.             *)
C20_StatusShowsMoisture ==
    (pc = "loop" /\ InGrid(garden, player.Y, player.X)) =>
        /\ ShownStatus.desc = CellAt(player.Y, player.X).StatusLine
        /\ ShownStatus.more = SquishText <=> player.ShoeMoistureContent > 1
        /\ ShownStatus.more = DriedText <=> player.ShoeMoistureContent = 1

===========================================================================
